---- MODULE Spec2Model ----
(***************************************************************************)
(* Expense-approval platform: the rule engine (server/ruleEngine.ts), the  *)
(* storage layer it reads (server/storage.ts), the schema's constraints    *)
(* (shared/schema.ts) and the routes that call them (server/routes.ts).    *)
(*                                                                         *)
(* Encoding of JavaScript values.  An absent string (null / undefined) is  *)
(* NULL == "", an absent number is 0 and an absent boolean is FALSE: every *)
(* place where the code tests such a field tests it for falsiness          *)
(* (!x, x || d, x && y, if (x)), which these encodings satisfy.            *)
(* An array of database rows whose order the code never reads is a set;    *)
(* the step list, which the code indexes, is a sequence kept in the order  *)
(* getWorkflowSteps returns (ascending stepNumber).                        *)
(***************************************************************************)
EXTENDS Integers, Sequences, FiniteSets, TLC

----------------------------------------------------------------------------
(* Bounds of the model *)

MaxSteps == 2            \* most workflow_steps rows of the workflow
MaxStepNumber == 2       \* largest stepNumber an admin posts
MaxHistory == 2          \* most approval_history rows of the expense
MaxRequests == 2         \* most approve requests in flight at once (SpecRace)

(* Bounds of the percentage-arithmetic specification SpecPct *)
MaxPctSteps == 50        \* most steps of the percentage workflow
MaxPctHistory == 28      \* most APPROVED rows already recorded
MinPctRequired == 57     \* smallest requiredPercentage tried
MaxPctRequired == 58     \* largest requiredPercentage tried

----------------------------------------------------------------------------
(* Identifiers and enumerations *)

NULL == ""

UserIds == {"u1", "u2", "u3", "u4"}  \* rows of the users table
ActorIds == {"u1", "u2", "u3"}       \* the users who send requests
OwnerId == "u1"                      \* the employee who submits the expense
GhostId == "u9"                      \* an id no users row has
UnknownWorkflowId == "w9"            \* an id no approval_workflows row has
CompanyId == "c1"
WorkflowId == "w1"

Roles == {"ADMIN", "MANAGER", "EMPLOYEE"}
RuleTypes == {"SEQUENTIAL", "PERCENTAGE", "SPECIFIC_APPROVER", "HYBRID", "LEGACY"}
Statuses == {"PENDING", "APPROVED", "REJECTED"}

(* Values the admin routes are given in this model *)
ManagerIds == {NULL, "u2", GhostId}
RequiredPercentages == {0, 100}
SpecificApproverIds == {NULL, "u3"}
Designations ==
  { [approverRole |-> "MANAGER", approverUserId |-> NULL],
    [approverRole |-> "ADMIN", approverUserId |-> NULL],
    [approverRole |-> NULL, approverUserId |-> "u2"],
    [approverRole |-> "ADMIN", approverUserId |-> "u2"] }

RuleConfigs ==
  [requiredPercentage : RequiredPercentages,
   specificApproverId : SpecificApproverIds,
   usePercentage : BOOLEAN]

NoConfig == [requiredPercentage |-> 0, specificApproverId |-> NULL, usePercentage |-> FALSE]

(* The (ruleType, ruleConfig) pairs posted to the workflow routes: every   *)
(* key the rule type's evaluator reads takes every value, keys it never    *)
(* reads stay unset.                                                       *)
WorkflowSettings ==
  { ws \in [ruleType : RuleTypes, ruleConfig : RuleConfigs] :
      /\ (ws.ruleType \in {"SEQUENTIAL", "LEGACY"} => ws.ruleConfig = NoConfig)
      /\ (ws.ruleType = "PERCENTAGE" =>
            ws.ruleConfig.specificApproverId = NULL /\ ~ws.ruleConfig.usePercentage)
      /\ (ws.ruleType = "SPECIFIC_APPROVER" =>
            ws.ruleConfig.requiredPercentage = 0 /\ ~ws.ruleConfig.usePercentage)
      /\ (ws.ruleType = "HYBRID" /\ ~ws.ruleConfig.usePercentage =>
            ws.ruleConfig.requiredPercentage = 0) }

----------------------------------------------------------------------------
(* State: the database tables and the record of the last call *)

VARIABLES
  users,      \* users table: id -> [role, companyId, managerId]
  workflow,   \* approval_workflows row WorkflowId: [exists, ruleType, ruleConfig]
  steps,      \* workflow_steps rows of WorkflowId, ascending stepNumber
  expense,    \* expenses row: [exists, userId, workflowId, currentStepNumber, status]
  history,    \* approval_history rows of the expense, in insertion order
  last,       \* the call of the engine or of the approve route that has just
              \* returned, until its caller takes the result
  inflight    \* approve requests between their awaits: request id ->
              \* [pc, actorId, status, expense, seenHistory, decision, code]

vars == <<users, workflow, steps, expense, history, last, inflight>>

NoWorkflow == [exists |-> FALSE, ruleType |-> NULL, ruleConfig |-> NoConfig]
NoExpense ==
  [exists |-> FALSE, userId |-> NULL, workflowId |-> NULL,
   currentStepNumber |-> 0, status |-> "PENDING"]

----------------------------------------------------------------------------
(* Storage layer (DatabaseStorage) *)

\* the row with that id, as a set of zero or one user ids
getUser(id) == IF id \in DOMAIN users THEN {id} ELSE {}

getUsersByCompany(companyId) == {u \in DOMAIN users : users[u].companyId = companyId}

getUsersByManager(managerId) == {u \in DOMAIN users : users[u].managerId = managerId}

getWorkflow(id) == IF workflow.exists /\ id = WorkflowId THEN {workflow} ELSE {}

getWorkflowsByCompany(companyId) ==
  IF workflow.exists /\ companyId = CompanyId THEN {workflow} ELSE {}

getWorkflowSteps(id) == IF id = WorkflowId THEN steps ELSE <<>>

getApprovalHistoryByExpense(e) == history

----------------------------------------------------------------------------
(* IEEE-754 double arithmetic of (approvedCount / totalApproversCount) * 100 *)
(* A 53-bit significand is held in three limbs hi * 2^36 + mid * 2^18 + lo;  *)
(* the value is significand * 2^(e - 52).                                    *)

RECURSIVE Pow2(_)
Pow2(n) == IF n = 0 THEN 1 ELSE 2 * Pow2(n - 1)

Limb == Pow2(18)

RECURSIVE ExpUp(_, _, _)
ExpUp(a, t, e) == IF t * Pow2(e + 1) <= a THEN ExpUp(a, t, e + 1) ELSE e

RECURSIVE ExpDown(_, _, _)
ExpDown(a, t, k) == IF a * Pow2(k) >= t THEN k ELSE ExpDown(a, t, k + 1)

\* floor(log2(a / t))
FloatExponent(a, t) == IF a >= t THEN ExpUp(a, t, 0) ELSE 0 - ExpDown(a, t, 1)

Carry(x) ==
  LET m1 == x.mid + (x.lo \div Limb)
  IN [hi |-> x.hi + (m1 \div Limb), mid |-> m1 % Limb, lo |-> x.lo % Limb]

\* a / t rounded to nearest, ties to even
FloatDivide(a, t) ==
  LET e == FloatExponent(a, t)
      N == IF e < 0 THEN a * Pow2(0 - e) ELSE a
      D == IF e > 0 THEN t * Pow2(e) ELSE t
      n0 == N * Pow2(16)
      n1 == (n0 % D) * Limb
      n2 == (n1 % D) * Limb
      r2 == n2 % D
      lo == n2 \div D
      up == (2 * r2 > D) \/ (2 * r2 = D /\ lo % 2 = 1)
  IN [m |-> Carry([hi |-> n0 \div D, mid |-> n1 \div D,
                   lo |-> IF up THEN lo + 1 ELSE lo]),
      e |-> e]

\* x * 100 rounded to nearest, ties to even
FloatTimes100(x) ==
  LET p == Carry([hi |-> x.m.hi * 100, mid |-> x.m.mid * 100, lo |-> x.m.lo * 100])
      s == IF p.hi >= Pow2(23) THEN 7 ELSE 6
      d == p.lo % Pow2(s)
      base == p.lo - d
      up == (d > Pow2(s - 1)) \/ (d = Pow2(s - 1) /\ (base \div Pow2(s)) % 2 = 1)
  IN [m |-> Carry([hi |-> p.hi, mid |-> p.mid,
                   lo |-> IF up THEN base + Pow2(s) ELSE base]),
      e |-> x.e]

\* the integer part of a double below 2^17
FloatFloor(x) == x.m.hi \div Pow2(16 - x.e)

\* currentPercentage >= requiredPercentage, for an integer requiredPercentage
PercentageAtLeast(approvedCount, totalApproversCount, requiredPercentage) ==
  FloatFloor(FloatTimes100(FloatDivide(approvedCount, totalApproversCount)))
    >= requiredPercentage

----------------------------------------------------------------------------
(* The rule engine (RuleEngine) *)

Reason(text, id) == [text |-> text, id |-> id]

Decision(approved, nextStepNumber, nextApprovers, completed, reason) ==
  [approved |-> approved, nextStepNumber |-> nextStepNumber,
   nextApprovers |-> nextApprovers, completed |-> completed, reason |-> reason]

UnauthorizedText == "Unauthorized: You are not an authorized approver for this step"

UnauthorizedDecision == Decision(FALSE, 0, {}, FALSE, Reason(UnauthorizedText, NULL))

\* steps.find(s => s.stepNumber === n): the first match, as a set of zero or one step
FindStep(st, n) ==
  LET hits == {i \in DOMAIN st : st[i].stepNumber = n}
  IN IF hits = {} THEN {}
     ELSE {st[CHOOSE i \in hits : \A j \in hits : i <= j]}

\* mutant: a role designation is resolved before a user designation
getApproversForStepRoleFirst(step, expenseUserId) ==
  IF step.approverRole # NULL
  THEN IF getUser(expenseUserId) = {}
       THEN {}
       ELSE IF step.approverRole = "MANAGER"
       THEN IF users[expenseUserId].managerId # NULL
            THEN getUser(users[expenseUserId].managerId)
            ELSE {}
       ELSE {u \in getUsersByCompany(users[expenseUserId].companyId) :
               users[u].role = step.approverRole}
  ELSE IF step.approverUserId # NULL
  THEN getUser(step.approverUserId)
  ELSE {}

getApproversForStep(step, expenseUserId) ==
  IF step.approverUserId # NULL
  THEN getUser(step.approverUserId)
  ELSE IF step.approverRole # NULL
  THEN IF getUser(expenseUserId) = {}
       THEN {}
       ELSE IF step.approverRole = "MANAGER"
       THEN IF users[expenseUserId].managerId # NULL
            THEN getUser(users[expenseUserId].managerId)
            ELSE {}
       ELSE {u \in getUsersByCompany(users[expenseUserId].companyId) :
               users[u].role = step.approverRole}
  ELSE {}

\* mutant: a current step without a record authorizes nobody
isApproverAuthorizedFailClosed(e, approverId) ==
  IF e.workflowId = NULL \/ e.currentStepNumber = 0
  THEN TRUE
  ELSE \E s \in FindStep(getWorkflowSteps(e.workflowId), e.currentStepNumber) :
         approverId \in getApproversForStep(s, e.userId)

isApproverAuthorized(e, approverId) ==
  IF e.workflowId = NULL \/ e.currentStepNumber = 0
  THEN TRUE
  ELSE LET currentStep == FindStep(getWorkflowSteps(e.workflowId), e.currentStepNumber)
       IN IF currentStep = {}
          THEN TRUE
          ELSE \E s \in currentStep : approverId \in getApproversForStep(s, e.userId)

\* mutant: the last step is taken for exhausted one approval early
processSequentialOffByOne(e, wf, st) ==
  LET currentStep == IF e.currentStepNumber # 0 THEN e.currentStepNumber ELSE 1
      nextStepNumber == currentStep + 1
  IN IF nextStepNumber >= Len(st)
     THEN Decision(TRUE, 0, {}, TRUE, Reason("All steps completed", NULL))
     ELSE Decision(FALSE, nextStepNumber,
                   getApproversForStep(st[nextStepNumber], e.userId), FALSE,
                   Reason("Moving to step ${nextStepNumber}", NULL))

\* mutant: an advance that does not say to which step
processSequentialNoNextStep(e, wf, st) ==
  LET currentStep == IF e.currentStepNumber # 0 THEN e.currentStepNumber ELSE 1
      nextStepNumber == currentStep + 1
  IN IF nextStepNumber > Len(st)
     THEN Decision(TRUE, 0, {}, TRUE, Reason("All steps completed", NULL))
     ELSE Decision(FALSE, 0,
                   getApproversForStep(st[nextStepNumber], e.userId), FALSE,
                   Reason("Moving to step ${nextStepNumber}", NULL))

\* mutant: the advance names the approvers of the step being left
processSequentialStaleApprovers(e, wf, st) ==
  LET currentStep == IF e.currentStepNumber # 0 THEN e.currentStepNumber ELSE 1
      nextStepNumber == currentStep + 1
  IN IF nextStepNumber > Len(st)
     THEN Decision(TRUE, 0, {}, TRUE, Reason("All steps completed", NULL))
     ELSE Decision(FALSE, nextStepNumber,
                   getApproversForStep(st[currentStep], e.userId), FALSE,
                   Reason("Moving to step ${nextStepNumber}", NULL))

processSequential(e, wf, st) ==
  LET currentStep == IF e.currentStepNumber # 0 THEN e.currentStepNumber ELSE 1
      nextStepNumber == currentStep + 1
  IN IF nextStepNumber > Len(st)
     THEN Decision(TRUE, 0, {}, TRUE, Reason("All steps completed", NULL))
     ELSE Decision(FALSE, nextStepNumber,
                   getApproversForStep(st[nextStepNumber], e.userId), FALSE,
                   Reason("Moving to step ${nextStepNumber}", NULL))

\* mutant: the current action is counted twice
approvedCountOfTwice(e) ==
  Cardinality({i \in DOMAIN getApprovalHistoryByExpense(e) :
                 getApprovalHistoryByExpense(e)[i].status = "APPROVED"}) + 2

approvedCountOf(e) ==
  Cardinality({i \in DOMAIN getApprovalHistoryByExpense(e) :
                 getApprovalHistoryByExpense(e)[i].status = "APPROVED"}) + 1

RECURSIVE totalApproversOf(_, _)
totalApproversOf(st, e) ==
  IF st = <<>> THEN 0
  ELSE totalApproversOf(SubSeq(st, 1, Len(st) - 1), e)
         + Cardinality(getApproversForStep(st[Len(st)], e.userId))

requiredPercentageOf(wf) ==
  IF wf.ruleConfig.requiredPercentage # 0 THEN wf.ruleConfig.requiredPercentage ELSE 50

\* mutant: a workflow nobody can approve fails open
processPercentageFailOpen(e, wf, st, approverId) ==
  LET requiredPercentage == requiredPercentageOf(wf)
      approvedCount == approvedCountOf(e)
      totalApproversCount == totalApproversOf(st, e)
      currentStep == IF e.currentStepNumber # 0 THEN e.currentStepNumber ELSE 1
      nextStepNumber == currentStep + 1
  IN IF totalApproversCount = 0
     THEN Decision(TRUE, 0, {}, TRUE,
                   Reason("No approvers available - auto-approved", NULL))
     ELSE IF PercentageAtLeast(approvedCount, totalApproversCount, requiredPercentage)
     THEN Decision(TRUE, 0, {}, TRUE,
                   Reason("${currentPercentage}% approval threshold met", NULL))
     ELSE IF nextStepNumber > Len(st)
     THEN Decision(PercentageAtLeast(approvedCount, totalApproversCount, requiredPercentage),
                   0, {}, TRUE, Reason("Final percentage: ${currentPercentage}%", NULL))
     ELSE Decision(FALSE, nextStepNumber,
                   getApproversForStep(st[nextStepNumber], e.userId), FALSE,
                   Reason("Current approval: ${currentPercentage}%, need ${requiredPercentage}%",
                          NULL))

\* mutant: exhausted steps approve, as they do under SEQUENTIAL
processPercentageExhaustedApproves(e, wf, st, approverId) ==
  LET requiredPercentage == requiredPercentageOf(wf)
      approvedCount == approvedCountOf(e)
      totalApproversCount == totalApproversOf(st, e)
      currentStep == IF e.currentStepNumber # 0 THEN e.currentStepNumber ELSE 1
      nextStepNumber == currentStep + 1
  IN IF totalApproversCount = 0
     THEN Decision(FALSE, 0, {}, TRUE,
                   Reason("No approvers available - workflow cannot proceed", NULL))
     ELSE IF PercentageAtLeast(approvedCount, totalApproversCount, requiredPercentage)
     THEN Decision(TRUE, 0, {}, TRUE,
                   Reason("${currentPercentage}% approval threshold met", NULL))
     ELSE IF nextStepNumber > Len(st)
     THEN Decision(TRUE, 0, {}, TRUE, Reason("Final percentage: ${currentPercentage}%", NULL))
     ELSE Decision(FALSE, nextStepNumber,
                   getApproversForStep(st[nextStepNumber], e.userId), FALSE,
                   Reason("Current approval: ${currentPercentage}%, need ${requiredPercentage}%",
                          NULL))

\* mutant: a met quorum still names the approvers of the following step
processPercentageNamesNextApprovers(e, wf, st, approverId) ==
  LET requiredPercentage == requiredPercentageOf(wf)
      approvedCount == approvedCountOf(e)
      totalApproversCount == totalApproversOf(st, e)
      currentStep == IF e.currentStepNumber # 0 THEN e.currentStepNumber ELSE 1
      nextStepNumber == currentStep + 1
  IN IF totalApproversCount = 0
     THEN Decision(FALSE, 0, {}, TRUE,
                   Reason("No approvers available - workflow cannot proceed", NULL))
     ELSE IF PercentageAtLeast(approvedCount, totalApproversCount, requiredPercentage)
     THEN Decision(TRUE, 0,
                   IF nextStepNumber > Len(st) THEN {}
                   ELSE getApproversForStep(st[nextStepNumber], e.userId),
                   TRUE, Reason("${currentPercentage}% approval threshold met", NULL))
     ELSE IF nextStepNumber > Len(st)
     THEN Decision(PercentageAtLeast(approvedCount, totalApproversCount, requiredPercentage),
                   0, {}, TRUE, Reason("Final percentage: ${currentPercentage}%", NULL))
     ELSE Decision(FALSE, nextStepNumber,
                   getApproversForStep(st[nextStepNumber], e.userId), FALSE,
                   Reason("Current approval: ${currentPercentage}%, need ${requiredPercentage}%",
                          NULL))

processPercentage(e, wf, st, approverId) ==
  LET requiredPercentage == requiredPercentageOf(wf)
      approvedCount == approvedCountOf(e)
      totalApproversCount == totalApproversOf(st, e)
      currentStep == IF e.currentStepNumber # 0 THEN e.currentStepNumber ELSE 1
      nextStepNumber == currentStep + 1
  IN IF totalApproversCount = 0
     THEN Decision(FALSE, 0, {}, TRUE,
                   Reason("No approvers available - workflow cannot proceed", NULL))
     ELSE IF PercentageAtLeast(approvedCount, totalApproversCount, requiredPercentage)
     THEN Decision(TRUE, 0, {}, TRUE,
                   Reason("${currentPercentage}% approval threshold met", NULL))
     ELSE IF nextStepNumber > Len(st)
     THEN Decision(PercentageAtLeast(approvedCount, totalApproversCount, requiredPercentage),
                   0, {}, TRUE, Reason("Final percentage: ${currentPercentage}%", NULL))
     ELSE Decision(FALSE, nextStepNumber,
                   getApproversForStep(st[nextStepNumber], e.userId), FALSE,
                   Reason("Current approval: ${currentPercentage}%, need ${requiredPercentage}%",
                          NULL))

\* mutant: the specific approver only passes the step like anybody else
processSpecificApproverNoOverride(e, wf, st, approverId) ==
  LET specificApproverId == wf.ruleConfig.specificApproverId
      currentStep == IF e.currentStepNumber # 0 THEN e.currentStepNumber ELSE 1
      nextStepNumber == currentStep + 1
  IN IF nextStepNumber > Len(st)
     THEN Decision(approverId = specificApproverId, 0, {}, TRUE,
                   Reason("Specific approver did not approve", NULL))
     ELSE Decision(FALSE, nextStepNumber,
                   getApproversForStep(st[nextStepNumber], e.userId), FALSE,
                   Reason("Waiting for specific approver (User ID: ${specificApproverId})",
                          specificApproverId))

\* mutant: exhausted steps approve, as they do under SEQUENTIAL
processSpecificApproverOptional(e, wf, st, approverId) ==
  LET specificApproverId == wf.ruleConfig.specificApproverId
  IN IF approverId = specificApproverId
     THEN Decision(TRUE, 0, {}, TRUE, Reason("Approved by specific approver", NULL))
     ELSE processSequential(e, wf, st)

\* mutant: the expense waits at its step while the specific approver is awaited
processSpecificApproverStays(e, wf, st, approverId) ==
  LET specificApproverId == wf.ruleConfig.specificApproverId
      currentStep == IF e.currentStepNumber # 0 THEN e.currentStepNumber ELSE 1
      nextStepNumber == currentStep + 1
  IN IF approverId = specificApproverId
     THEN Decision(TRUE, 0, {}, TRUE, Reason("Approved by specific approver", NULL))
     ELSE IF nextStepNumber > Len(st)
     THEN Decision(FALSE, 0, {}, TRUE, Reason("Specific approver did not approve", NULL))
     ELSE Decision(FALSE, currentStep,
                   getApproversForStep(st[nextStepNumber], e.userId), FALSE,
                   Reason("Waiting for specific approver (User ID: ${specificApproverId})",
                          specificApproverId))

processSpecificApprover(e, wf, st, approverId) ==
  LET specificApproverId == wf.ruleConfig.specificApproverId
      currentStep == IF e.currentStepNumber # 0 THEN e.currentStepNumber ELSE 1
      nextStepNumber == currentStep + 1
  IN IF approverId = specificApproverId
     THEN Decision(TRUE, 0, {}, TRUE, Reason("Approved by specific approver", NULL))
     ELSE IF nextStepNumber > Len(st)
     THEN Decision(FALSE, 0, {}, TRUE, Reason("Specific approver did not approve", NULL))
     ELSE Decision(FALSE, nextStepNumber,
                   getApproversForStep(st[nextStepNumber], e.userId), FALSE,
                   Reason("Waiting for specific approver (User ID: ${specificApproverId})",
                          specificApproverId))

\* mutant: exhausted steps approve while the specific approver has not approved
processHybridExhaustedApproves(e, wf, st, approverId) ==
  LET usePercentage == wf.ruleConfig.usePercentage
      specificApproverId == wf.ruleConfig.specificApproverId
      approvalHistory == getApprovalHistoryByExpense(e)
      specificApproverApproved ==
        /\ specificApproverId # NULL
        /\ \E i \in DOMAIN approvalHistory :
             /\ approvalHistory[i].approverId = specificApproverId
             /\ approvalHistory[i].status = "APPROVED"
      currentStep == IF e.currentStepNumber # 0 THEN e.currentStepNumber ELSE 1
      nextStepNumber == currentStep + 1
  IN IF specificApproverId # NULL /\ approverId = specificApproverId
     THEN Decision(TRUE, 0, {}, TRUE,
                   Reason("Approved by specific approver (hybrid rule)", NULL))
     ELSE IF specificApproverId # NULL /\ ~specificApproverApproved
     THEN IF nextStepNumber > Len(st)
          THEN Decision(TRUE, 0, {}, TRUE, Reason("All steps completed", NULL))
          ELSE Decision(FALSE, nextStepNumber,
                 getApproversForStep(st[nextStepNumber], e.userId), FALSE,
                 Reason("Waiting for specific approver (User ID: ${specificApproverId}) in hybrid workflow",
                        specificApproverId))
     ELSE IF usePercentage
     THEN processPercentage(e, wf, st, approverId)
     ELSE processSequential(e, wf, st)

\* mutant: the secondary strategy runs whether or not the specific approver
\* has approved
processHybridGateIgnored(e, wf, st, approverId) ==
  LET usePercentage == wf.ruleConfig.usePercentage
      specificApproverId == wf.ruleConfig.specificApproverId
  IN IF specificApproverId # NULL /\ approverId = specificApproverId
     THEN Decision(TRUE, 0, {}, TRUE,
                   Reason("Approved by specific approver (hybrid rule)", NULL))
     ELSE IF usePercentage
     THEN processPercentage(e, wf, st, approverId)
     ELSE processSequential(e, wf, st)

\* mutant: past the gate the evaluation is sequential whatever usePercentage says
processHybridAlwaysSequential(e, wf, st, approverId) ==
  LET specificApproverId == wf.ruleConfig.specificApproverId
      approvalHistory == getApprovalHistoryByExpense(e)
      specificApproverApproved ==
        /\ specificApproverId # NULL
        /\ \E i \in DOMAIN approvalHistory :
             /\ approvalHistory[i].approverId = specificApproverId
             /\ approvalHistory[i].status = "APPROVED"
      currentStep == IF e.currentStepNumber # 0 THEN e.currentStepNumber ELSE 1
      nextStepNumber == currentStep + 1
  IN IF specificApproverId # NULL /\ approverId = specificApproverId
     THEN Decision(TRUE, 0, {}, TRUE,
                   Reason("Approved by specific approver (hybrid rule)", NULL))
     ELSE IF specificApproverId # NULL /\ ~specificApproverApproved
     THEN IF nextStepNumber > Len(st)
          THEN Decision(FALSE, 0, {}, TRUE,
                 Reason("Workflow complete but specific approver has not approved - rejected",
                        NULL))
          ELSE Decision(FALSE, nextStepNumber,
                 getApproversForStep(st[nextStepNumber], e.userId), FALSE,
                 Reason("Waiting for specific approver (User ID: ${specificApproverId}) in hybrid workflow",
                        specificApproverId))
     ELSE processSequential(e, wf, st)

processHybrid(e, wf, st, approverId) ==
  LET usePercentage == wf.ruleConfig.usePercentage
      specificApproverId == wf.ruleConfig.specificApproverId
      approvalHistory == getApprovalHistoryByExpense(e)
      specificApproverApproved ==
        /\ specificApproverId # NULL
        /\ \E i \in DOMAIN approvalHistory :
             /\ approvalHistory[i].approverId = specificApproverId
             /\ approvalHistory[i].status = "APPROVED"
      currentStep == IF e.currentStepNumber # 0 THEN e.currentStepNumber ELSE 1
      nextStepNumber == currentStep + 1
  IN IF specificApproverId # NULL /\ approverId = specificApproverId
     THEN Decision(TRUE, 0, {}, TRUE,
                   Reason("Approved by specific approver (hybrid rule)", NULL))
     ELSE IF specificApproverId # NULL /\ ~specificApproverApproved
     THEN IF nextStepNumber > Len(st)
          THEN Decision(FALSE, 0, {}, TRUE,
                 Reason("Workflow complete but specific approver has not approved - rejected",
                        NULL))
          ELSE Decision(FALSE, nextStepNumber,
                 getApproversForStep(st[nextStepNumber], e.userId), FALSE,
                 Reason("Waiting for specific approver (User ID: ${specificApproverId}) in hybrid workflow",
                        specificApproverId))
     ELSE IF usePercentage
     THEN processPercentage(e, wf, st, approverId)
     ELSE processSequential(e, wf, st)

\* mutant: an unknown rule type is evaluated as SEQUENTIAL
DispatchUnknownIsSequential(e, wf, st, approverId) ==
  CASE wf.ruleType = "PERCENTAGE" -> processPercentage(e, wf, st, approverId)
    [] wf.ruleType = "SPECIFIC_APPROVER" -> processSpecificApprover(e, wf, st, approverId)
    [] wf.ruleType = "HYBRID" -> processHybrid(e, wf, st, approverId)
    [] OTHER -> processSequential(e, wf, st)

\* the switch on workflow.ruleType
Dispatch(e, wf, st, approverId) ==
  CASE wf.ruleType = "SEQUENTIAL" -> processSequential(e, wf, st)
    [] wf.ruleType = "PERCENTAGE" -> processPercentage(e, wf, st, approverId)
    [] wf.ruleType = "SPECIFIC_APPROVER" -> processSpecificApprover(e, wf, st, approverId)
    [] wf.ruleType = "HYBRID" -> processHybrid(e, wf, st, approverId)
    [] OTHER -> Decision(TRUE, 0, {}, TRUE, Reason("Unknown rule type - auto-approved", NULL))

\* mutant: a rejection is terminal only at the last step
processApprovalRejectAtLastStep(e, approverId, decision) ==
  IF decision = "REJECTED"
  THEN IF ~isApproverAuthorized(e, approverId)
       THEN UnauthorizedDecision
       ELSE Decision(FALSE, 0, {},
                     e.currentStepNumber >= Len(getWorkflowSteps(e.workflowId)),
                     Reason("Expense rejected by approver", NULL))
  ELSE IF e.workflowId = NULL
  THEN Decision(TRUE, 0, {}, TRUE, Reason("No workflow assigned - auto-approved", NULL))
  ELSE IF getWorkflow(e.workflowId) = {}
  THEN Decision(TRUE, 0, {}, TRUE, Reason("Workflow not found - auto-approved", NULL))
  ELSE IF getWorkflowSteps(e.workflowId) = <<>>
  THEN Decision(TRUE, 0, {}, TRUE, Reason("No workflow steps - auto-approved", NULL))
  ELSE IF ~isApproverAuthorized(e, approverId)
  THEN UnauthorizedDecision
  ELSE Dispatch(e, CHOOSE wf \in getWorkflow(e.workflowId) : TRUE,
                getWorkflowSteps(e.workflowId), approverId)

\* mutant: an expense without workflow is approved only by the owner's manager
processApprovalManagerOnly(e, approverId, decision) ==
  IF decision = "REJECTED"
  THEN IF ~isApproverAuthorized(e, approverId)
       THEN UnauthorizedDecision
       ELSE Decision(FALSE, 0, {}, TRUE, Reason("Expense rejected by approver", NULL))
  ELSE IF e.workflowId = NULL
  THEN IF e.userId \in getUsersByManager(approverId)
       THEN Decision(TRUE, 0, {}, TRUE, Reason("No workflow assigned - auto-approved", NULL))
       ELSE UnauthorizedDecision
  ELSE IF getWorkflow(e.workflowId) = {}
  THEN Decision(TRUE, 0, {}, TRUE, Reason("Workflow not found - auto-approved", NULL))
  ELSE IF getWorkflowSteps(e.workflowId) = <<>>
  THEN Decision(TRUE, 0, {}, TRUE, Reason("No workflow steps - auto-approved", NULL))
  ELSE IF ~isApproverAuthorized(e, approverId)
  THEN UnauthorizedDecision
  ELSE Dispatch(e, CHOOSE wf \in getWorkflow(e.workflowId) : TRUE,
                getWorkflowSteps(e.workflowId), approverId)

\* mutant: a workflow without steps fails closed
processApprovalNoStepsRejects(e, approverId, decision) ==
  IF decision = "REJECTED"
  THEN IF ~isApproverAuthorized(e, approverId)
       THEN UnauthorizedDecision
       ELSE Decision(FALSE, 0, {}, TRUE, Reason("Expense rejected by approver", NULL))
  ELSE IF e.workflowId = NULL
  THEN Decision(TRUE, 0, {}, TRUE, Reason("No workflow assigned - auto-approved", NULL))
  ELSE IF getWorkflow(e.workflowId) = {}
  THEN Decision(TRUE, 0, {}, TRUE, Reason("Workflow not found - auto-approved", NULL))
  ELSE IF getWorkflowSteps(e.workflowId) = <<>>
  THEN Decision(FALSE, 0, {}, TRUE, Reason("No workflow steps - rejected", NULL))
  ELSE IF ~isApproverAuthorized(e, approverId)
  THEN UnauthorizedDecision
  ELSE Dispatch(e, CHOOSE wf \in getWorkflow(e.workflowId) : TRUE,
                getWorkflowSteps(e.workflowId), approverId)

processApproval(e, approverId, decision) ==
  IF decision = "REJECTED"
  THEN IF ~isApproverAuthorized(e, approverId)
       THEN UnauthorizedDecision
       ELSE Decision(FALSE, 0, {}, TRUE, Reason("Expense rejected by approver", NULL))
  ELSE IF e.workflowId = NULL
  THEN Decision(TRUE, 0, {}, TRUE, Reason("No workflow assigned - auto-approved", NULL))
  ELSE IF getWorkflow(e.workflowId) = {}
  THEN Decision(TRUE, 0, {}, TRUE, Reason("Workflow not found - auto-approved", NULL))
  ELSE IF getWorkflowSteps(e.workflowId) = <<>>
  THEN Decision(TRUE, 0, {}, TRUE, Reason("No workflow steps - auto-approved", NULL))
  ELSE IF ~isApproverAuthorized(e, approverId)
  THEN UnauthorizedDecision
  ELSE Dispatch(e, CHOOSE wf \in getWorkflow(e.workflowId) : TRUE,
                getWorkflowSteps(e.workflowId), approverId)

----------------------------------------------------------------------------
(* The record of the last call *)

NoDecision == Decision(FALSE, 0, {}, FALSE, Reason(NULL, NULL))

Snapshot ==
  [users |-> users, workflow |-> workflow, steps |-> steps,
   expense |-> expense, history |-> history]

NoCall ==
  [kind |-> "none", approverId |-> NULL, status |-> NULL, comment |-> FALSE,
   code |-> 0, authorized |-> FALSE, decision |-> NoDecision,
   before |-> [users |-> [u \in {} |-> NULL], workflow |-> NoWorkflow, steps |-> <<>>,
               expense |-> NoExpense, history |-> <<>>]]

\* mutant: the reason is compared with the word instead of searched for it
EqualsUnauthorized(reason) == reason.text = "Unauthorized"

\* decision.reason.includes("Unauthorized"): the literal texts and the
\* interpolated id are the only parts of a reason that can hold letters
IncludesUnauthorized(reason) ==
  reason.text = UnauthorizedText \/ reason.id \in {"Unauthorized"}

RequestIds == 1..MaxRequests

NoRequest ==
  [pc |-> "idle", actorId |-> NULL, status |-> NULL, expense |-> NoExpense,
   seenHistory |-> <<>>, decision |-> NoDecision, code |-> 0]

NoRequests == [r \in RequestIds |-> NoRequest]

\* no call is waiting for its result to be taken
Idle == last.kind = "none"

\* the caller takes the result of the call
Return ==
  /\ ~Idle
  /\ last' = NoCall
  /\ UNCHANGED <<inflight, users, workflow, steps, expense, history>>

----------------------------------------------------------------------------
(* Calls of the engine's public methods *)

IsApproverAuthorized(approverId) ==
  /\ Idle
  /\ expense.exists
  /\ last' = [NoCall EXCEPT !.kind = "authorized", !.approverId = approverId,
                            !.authorized = isApproverAuthorized(expense, approverId),
                            !.before = Snapshot]
  /\ UNCHANGED <<inflight, users, workflow, steps, expense, history>>

\* mutant: the engine records the action itself
ProcessApprovalRecording(approverId, decision) ==
  /\ Idle
  /\ expense.exists
  /\ Len(history) < MaxHistory
  /\ last' = [NoCall EXCEPT !.kind = "engine", !.approverId = approverId,
                            !.status = decision,
                            !.decision = processApproval(expense, approverId, decision),
                            !.before = Snapshot]
  /\ history' = Append(history, [approverId |-> approverId, status |-> decision])
  /\ UNCHANGED <<inflight, users, workflow, steps, expense>>

ProcessApproval(approverId, decision) ==
  /\ Idle
  /\ expense.exists
  /\ last' = [NoCall EXCEPT !.kind = "engine", !.approverId = approverId,
                            !.status = decision,
                            !.decision = processApproval(expense, approverId, decision),
                            !.before = Snapshot]
  /\ UNCHANGED <<inflight, users, workflow, steps, expense, history>>

----------------------------------------------------------------------------
(* Routes *)

\* req.user.role: the role the JWT was signed with; no action of this model
\* changes a role, so it is the role of the users row
jwtRole(userId) == users[userId].role

\* mutant: the expense is attached to the workflow without a current step
CreateExpenseNoStep ==
  /\ Idle
  /\ ~expense.exists
  /\ LET sequentialWorkflow ==
           {w \in getWorkflowsByCompany(users[OwnerId].companyId) : w.ruleType = "SEQUENTIAL"}
     IN expense' = [exists |-> TRUE, userId |-> OwnerId,
                    workflowId |-> IF sequentialWorkflow # {} THEN WorkflowId ELSE NULL,
                    currentStepNumber |-> 0,
                    status |-> "PENDING"]
  /\ UNCHANGED <<inflight, users, workflow, steps, history, last>>

\* POST /api/expenses
CreateExpense ==
  /\ Idle
  /\ ~expense.exists
  /\ LET sequentialWorkflow ==
           {w \in getWorkflowsByCompany(users[OwnerId].companyId) : w.ruleType = "SEQUENTIAL"}
     IN expense' = [exists |-> TRUE, userId |-> OwnerId,
                    workflowId |-> IF sequentialWorkflow # {} THEN WorkflowId ELSE NULL,
                    currentStepNumber |-> IF sequentialWorkflow # {} THEN 1 ELSE 0,
                    status |-> "PENDING"]
  /\ UNCHANGED <<inflight, users, workflow, steps, history, last>>

\* what POST /api/expenses/:id/approve answers and writes
\* mutant: an advance is recorded in the history but not on the expense
ApproveOutcomeKeepsStep(actorId, status, comment) ==
  LET isTeamExpense == expense.userId \in getUsersByManager(actorId)
      decision == processApproval(expense, actorId, status)
      entry == [approverId |-> actorId, status |-> status]
      Answer(code, d, e, h) == [code |-> code, decision |-> d, expense |-> e, history |-> h]
  IN IF jwtRole(actorId) # "MANAGER" /\ jwtRole(actorId) # "ADMIN"
     THEN Answer(403, NoDecision, expense, history)
     ELSE IF status \notin {"APPROVED", "REJECTED"}
     THEN Answer(400, NoDecision, expense, history)
     ELSE IF status = "REJECTED" /\ ~comment
     THEN Answer(400, NoDecision, expense, history)
     ELSE IF ~expense.exists
     THEN Answer(404, NoDecision, expense, history)
     ELSE IF ~isTeamExpense /\ jwtRole(actorId) # "ADMIN"
     THEN Answer(403, NoDecision, expense, history)
     ELSE IF expense.workflowId # NULL
     THEN IF IncludesUnauthorized(decision.reason)
          THEN Answer(403, decision, expense, history)
          ELSE IF decision.completed
          THEN Answer(200, decision,
                      [expense EXCEPT !.status = IF decision.approved THEN "APPROVED"
                                                 ELSE "REJECTED"],
                      Append(history, entry))
          ELSE Answer(200, decision, expense, Append(history, entry))
     ELSE Answer(200, NoDecision, [expense EXCEPT !.status = status],
                 Append(history, entry))

ApproveOutcome(actorId, status, comment) ==
  LET isTeamExpense == expense.userId \in getUsersByManager(actorId)
      decision == processApproval(expense, actorId, status)
      entry == [approverId |-> actorId, status |-> status]
      Answer(code, d, e, h) == [code |-> code, decision |-> d, expense |-> e, history |-> h]
  IN IF jwtRole(actorId) # "MANAGER" /\ jwtRole(actorId) # "ADMIN"
     THEN Answer(403, NoDecision, expense, history)
     ELSE IF status \notin {"APPROVED", "REJECTED"}
     THEN Answer(400, NoDecision, expense, history)
     ELSE IF status = "REJECTED" /\ ~comment
     THEN Answer(400, NoDecision, expense, history)
     ELSE IF ~expense.exists
     THEN Answer(404, NoDecision, expense, history)
     ELSE IF ~isTeamExpense /\ jwtRole(actorId) # "ADMIN"
     THEN Answer(403, NoDecision, expense, history)
     ELSE IF expense.workflowId # NULL
     THEN IF IncludesUnauthorized(decision.reason)
          THEN Answer(403, decision, expense, history)
          ELSE IF decision.completed
          THEN Answer(200, decision,
                      [expense EXCEPT !.status = IF decision.approved THEN "APPROVED"
                                                 ELSE "REJECTED"],
                      Append(history, entry))
          ELSE IF decision.nextStepNumber # 0
          THEN Answer(200, decision,
                      [expense EXCEPT !.workflowId = expense.workflowId,
                                      !.currentStepNumber = decision.nextStepNumber],
                      Append(history, entry))
          ELSE Answer(200, decision, expense, Append(history, entry))
     ELSE Answer(200, NoDecision, [expense EXCEPT !.status = status],
                 Append(history, entry))

ApproveExpense(actorId, status, comment) ==
  LET out == ApproveOutcome(actorId, status, comment)
  IN /\ Idle
     /\ Len(out.history) <= MaxHistory
     /\ expense' = out.expense
     /\ history' = out.history
     /\ last' = [NoCall EXCEPT !.kind = "approve", !.approverId = actorId,
                               !.status = status, !.comment = comment,
                               !.code = out.code, !.decision = out.decision,
                               !.before = Snapshot]
     /\ UNCHANGED <<inflight, users, workflow, steps>>

\* POST /api/workflows
CreateWorkflow(ws) ==
  /\ Idle
  /\ ~workflow.exists
  /\ workflow' = [exists |-> TRUE, ruleType |-> ws.ruleType, ruleConfig |-> ws.ruleConfig]
  /\ UNCHANGED <<inflight, users, steps, expense, history, last>>

\* PATCH /api/workflows/:id
UpdateWorkflow(ws) ==
  /\ Idle
  /\ workflow.exists
  /\ workflow' = [workflow EXCEPT !.ruleType = ws.ruleType, !.ruleConfig = ws.ruleConfig]
  /\ workflow' # workflow
  /\ UNCHANGED <<inflight, users, steps, expense, history, last>>

\* DELETE /api/workflows/:id; expenses.workflow_id references the row, and
\* workflow_steps rows go with it (onDelete cascade)
DeleteWorkflow ==
  /\ Idle
  /\ workflow.exists
  /\ ~(expense.exists /\ expense.workflowId = WorkflowId)
  /\ workflow' = NoWorkflow
  /\ steps' = <<>>
  /\ UNCHANGED <<inflight, users, expense, history, last>>

IsSorted(st) == \A i, j \in DOMAIN st : i < j => st[i].stepNumber <= st[j].stepNumber

InsertAt(st, p, x) == SubSeq(st, 1, p - 1) \o <<x>> \o SubSeq(st, p, Len(st))

\* POST /api/workflows/:workflowId/steps; rows of equal stepNumber come back
\* from ORDER BY in an order the database chooses
CreateWorkflowStep(stepNumber, designation, p) ==
  /\ Idle
  /\ workflow.exists
  /\ Len(steps) < MaxSteps
  /\ p \in 1..(Len(steps) + 1)
  /\ steps' = InsertAt(steps, p, [stepNumber |-> stepNumber,
                                  approverRole |-> designation.approverRole,
                                  approverUserId |-> designation.approverUserId])
  /\ IsSorted(steps')
  /\ UNCHANGED <<inflight, users, workflow, expense, history, last>>

\* DELETE /api/workflows/steps/:stepId
DeleteWorkflowStep(i) ==
  /\ Idle
  /\ i \in DOMAIN steps
  /\ steps' = SubSeq(steps, 1, i - 1) \o SubSeq(steps, i + 1, Len(steps))
  /\ UNCHANGED <<inflight, users, workflow, expense, history, last>>

\* PATCH /api/users/:id with a managerId, for the owner of the expense
UpdateUser(managerId) ==
  /\ Idle
  /\ users[OwnerId].managerId # managerId
  /\ users' = [users EXCEPT ![OwnerId].managerId = managerId]
  /\ UNCHANGED <<inflight, workflow, steps, expense, history, last>>

----------------------------------------------------------------------------
(* The system *)

\* one employee, the manager the employee reports to, and two admins
InitialUsers ==
  [u \in UserIds |->
     [role |-> CASE u = "u1" -> "EMPLOYEE" [] u = "u2" -> "MANAGER" [] OTHER -> "ADMIN",
      companyId |-> CompanyId,
      managerId |-> IF u = OwnerId THEN "u2" ELSE NULL]]

Init ==
  /\ users = InitialUsers
  /\ workflow = NoWorkflow
  /\ steps = <<>>
  /\ expense = NoExpense
  /\ history = <<>>
  /\ last = NoCall
  /\ inflight = NoRequests

Next ==
  \/ \E approverId \in ActorIds : IsApproverAuthorized(approverId)
  \/ \E approverId \in ActorIds, decision \in {"APPROVED", "REJECTED"} :
       ProcessApproval(approverId, decision)
  \/ CreateExpense
  \/ \E actorId \in ActorIds, status \in Statuses :
       \E comment \in (IF status = "REJECTED" THEN BOOLEAN ELSE {FALSE}) :
         ApproveExpense(actorId, status, comment)
  \/ \E ws \in WorkflowSettings : CreateWorkflow(ws)
  \/ \E ws \in WorkflowSettings : UpdateWorkflow(ws)
  \/ DeleteWorkflow
  \/ \E stepNumber \in 1..MaxStepNumber, designation \in Designations, p \in 1..(MaxSteps + 1) :
       CreateWorkflowStep(stepNumber, designation, p)
  \/ \E i \in 1..MaxSteps : DeleteWorkflowStep(i)
  \/ \E managerId \in ManagerIds : UpdateUser(managerId)
  \/ Return

Spec == Init /\ [][Next]_vars

----------------------------------------------------------------------------
(* Percentage arithmetic at scale.  A database the routes can produce: a   *)
(* workflow of n single-approver steps that was SEQUENTIAL while h         *)
(* approvals advanced the expense to step h + 1, then patched to           *)
(* PERCENTAGE with a requiredPercentage; the engine is called on it.       *)

PctSteps(n) == [i \in 1..n |-> [stepNumber |-> i, approverRole |-> NULL,
                                approverUserId |-> "u3"]]

PctHistory(h) == [i \in 1..h |-> [approverId |-> "u3", status |-> "APPROVED"]]

InitPct ==
  \E n \in 1..MaxPctSteps, h \in 0..MaxPctHistory, r \in MinPctRequired..MaxPctRequired :
    /\ h < n
    /\ users = InitialUsers
    /\ workflow = [exists |-> TRUE, ruleType |-> "PERCENTAGE",
                   ruleConfig |-> [NoConfig EXCEPT !.requiredPercentage = r]]
    /\ steps = PctSteps(n)
    /\ expense = [exists |-> TRUE, userId |-> OwnerId, workflowId |-> WorkflowId,
                  currentStepNumber |-> h + 1, status |-> "PENDING"]
    /\ history = PctHistory(h)
    /\ last = NoCall
    /\ inflight = NoRequests

NextPct ==
  \/ \E approverId \in ActorIds, decision \in {"APPROVED", "REJECTED"} :
       ProcessApproval(approverId, decision)
  \/ Return

SpecPct == InitPct /\ [][NextPct]_vars

----------------------------------------------------------------------------
(* The approve route between its awaits.  Two or more requests on the same  *)
(* expense run POST /api/expenses/:id/approve concurrently: each reads the   *)
(* expense, has the engine decide on the row it read, appends its history    *)
(* row and updates the expense, and the event loop may run another request   *)
(* at every await.  The tables start as the routes leave them after an       *)
(* expense was submitted under a workflow of two steps for the company's     *)
(* admins (or before any workflow existed).                                  *)

\* role and body checks, getExpense, getUsersByManager
ApproveRead(r, actorId, status) ==
  LET isTeamExpense == expense.userId \in getUsersByManager(actorId)
      code == IF jwtRole(actorId) # "MANAGER" /\ jwtRole(actorId) # "ADMIN" THEN 403
              ELSE IF ~expense.exists THEN 404
              ELSE IF ~isTeamExpense /\ jwtRole(actorId) # "ADMIN" THEN 403
              ELSE 0
  IN /\ inflight[r].pc = "idle"
     /\ inflight' = [inflight EXCEPT ![r] =
          [NoRequest EXCEPT !.pc = IF code = 0 THEN "read" ELSE "answered",
                            !.actorId = actorId, !.status = status,
                            !.expense = expense, !.code = code]]
     /\ UNCHANGED <<users, workflow, steps, expense, history, last>>

\* ruleEngine.processApproval on the expense row the request read
ApproveDecide(r) ==
  LET req == inflight[r]
      decision == processApproval(req.expense, req.actorId, req.status)
  IN /\ req.pc = "read"
     /\ inflight' = [inflight EXCEPT ![r] =
          IF req.expense.workflowId = NULL
          THEN [req EXCEPT !.pc = "decided", !.seenHistory = history]
          ELSE IF IncludesUnauthorized(decision.reason)
          THEN [req EXCEPT !.pc = "answered", !.decision = decision,
                           !.seenHistory = history, !.code = 403]
          ELSE [req EXCEPT !.pc = "decided", !.decision = decision,
                           !.seenHistory = history]]
     /\ UNCHANGED <<users, workflow, steps, expense, history, last>>

\* storage.createApprovalHistory
ApproveRecord(r) ==
  LET req == inflight[r]
  IN /\ req.pc = "decided"
     /\ history' = Append(history, [approverId |-> req.actorId, status |-> req.status])
     /\ inflight' = [inflight EXCEPT ![r].pc = "recorded"]
     /\ UNCHANGED <<users, workflow, steps, expense, last>>

\* storage.updateExpenseStatus or storage.updateExpenseWorkflow, then res.json
ApproveUpdate(r) ==
  LET req == inflight[r]
  IN /\ req.pc = "recorded"
     /\ expense' =
          IF req.expense.workflowId = NULL
          THEN [expense EXCEPT !.status = req.status]
          ELSE IF req.decision.completed
          THEN [expense EXCEPT !.status = IF req.decision.approved THEN "APPROVED"
                                          ELSE "REJECTED"]
          ELSE IF req.decision.nextStepNumber # 0
          THEN [expense EXCEPT !.workflowId = req.expense.workflowId,
                               !.currentStepNumber = req.decision.nextStepNumber]
          ELSE expense
     /\ inflight' = [inflight EXCEPT ![r].pc = "answered", ![r].code = 200]
     /\ UNCHANGED <<users, workflow, steps, history, last>>

RaceSteps ==
  [i \in 1..2 |-> [stepNumber |-> i, approverRole |-> "ADMIN", approverUserId |-> NULL]]

InitRace ==
  \E ruleType \in {"SEQUENTIAL", "PERCENTAGE"}, attached \in BOOLEAN :
    /\ users = InitialUsers
    /\ workflow = [exists |-> TRUE, ruleType |-> ruleType, ruleConfig |-> NoConfig]
    /\ steps = RaceSteps
    /\ expense = [exists |-> TRUE, userId |-> OwnerId,
                  workflowId |-> IF attached THEN WorkflowId ELSE NULL,
                  currentStepNumber |-> IF attached THEN 1 ELSE 0,
                  status |-> "PENDING"]
    /\ history = <<>>
    /\ last = NoCall
    /\ inflight = NoRequests

NextRace ==
  \E r \in RequestIds :
    \/ \E actorId \in UserIds, status \in {"APPROVED", "REJECTED"} :
         ApproveRead(r, actorId, status)
    \/ ApproveDecide(r)
    \/ ApproveRecord(r)
    \/ ApproveUpdate(r)

SpecRace == InitRace /\ [][NextRace]_vars

----------------------------------------------------------------------------
(* One expense under a fixed SEQUENTIAL workflow.  An admin has posted a    *)
(* SEQUENTIAL workflow and its steps, numbered 1..n, each with a            *)
(* designation that resolves to somebody; afterwards neither the workflow   *)
(* nor the directory changes.  The employee submits an expense and the      *)
(* users send requests to the approve route, one at a time.                 *)

ContiguousSteps(designations) ==
  [i \in DOMAIN designations |->
     [stepNumber |-> i, approverRole |-> designations[i].approverRole,
      approverUserId |-> designations[i].approverUserId]]

InitSeq ==
  \E n \in 1..MaxSteps :
    \E designations \in [1..n -> Designations] :
      /\ users = InitialUsers
      /\ workflow = [exists |-> TRUE, ruleType |-> "SEQUENTIAL", ruleConfig |-> NoConfig]
      /\ steps = ContiguousSteps(designations)
      /\ expense = NoExpense
      /\ history = <<>>
      /\ last = NoCall
      /\ inflight = NoRequests

NextSeq ==
  \/ CreateExpense
  \/ \E actorId \in ActorIds, status \in Statuses :
       \E comment \in (IF status = "REJECTED" THEN BOOLEAN ELSE {FALSE}) :
         ApproveExpense(actorId, status, comment)
  \/ Return

SpecSeq == InitSeq /\ [][NextSeq]_vars

----------------------------------------------------------------------------
(* One expense under a workflow whose rule names a specific approver.       *)
(* rule_config is a JSON column and specificApproverId a key of it that no   *)
(* route validates and no foreign key constrains: it holds whatever text the *)
(* admin posted, a users id or not.  An admin has posted a SEQUENTIAL        *)
(* workflow of two steps; the employee submits an expense under it, the      *)
(* admin changes the rule with PATCH /api/workflows/:id, and the users call  *)
(* the engine or send requests to the approve route, one at a time.          *)

\* values of ruleConfig.specificApproverId: unset, a users id, some other text
PostedApproverIds == {NULL, "u3", "Unauthorized"}

InitReason ==
  \E designations \in [1..2 -> Designations] :
    /\ users = InitialUsers
    /\ workflow = [exists |-> TRUE, ruleType |-> "SEQUENTIAL", ruleConfig |-> NoConfig]
    /\ steps = ContiguousSteps(designations)
    /\ expense = NoExpense
    /\ history = <<>>
    /\ last = NoCall
    /\ inflight = NoRequests

NextReason ==
  \/ CreateExpense
  \/ \E ruleType \in {"SPECIFIC_APPROVER", "HYBRID"}, specificApproverId \in PostedApproverIds :
       UpdateWorkflow([ruleType |-> ruleType,
                       ruleConfig |-> [NoConfig EXCEPT !.specificApproverId = specificApproverId]])
  \/ \E approverId \in ActorIds, decision \in {"APPROVED", "REJECTED"} :
       ProcessApproval(approverId, decision)
  \/ \E actorId \in ActorIds, status \in {"APPROVED", "REJECTED"} :
       ApproveExpense(actorId, status, TRUE)
  \/ Return

SpecReason == InitReason /\ [][NextReason]_vars

----------------------------------------------------------------------------
(* An admin at work during an engine call.  processApproval awaits its      *)
(* lookups one after the other: getWorkflow, getWorkflowSteps for the list  *)
(* it dispatches on, then isApproverAuthorized, which fetches the steps and *)
(* the users again, then the evaluator, which resolves the next step's      *)
(* approvers.  Requests of an admin to the step and user routes are served  *)
(* between these awaits.  Here inflight is the one engine call in progress: *)
(* its position, what it has fetched so far, and, for reference, the tables *)
(* as they were when it was called and the Decision an uninterrupted call   *)
(* would have returned on them.  At most one admin request is served while  *)
(* a call is in progress.                                                    *)

NoEngineCall ==
  [pc |-> "idle", approverId |-> NULL, workflow |-> NoWorkflow, steps |-> <<>>,
   decision |-> NoDecision, uninterrupted |-> NoDecision,
   usersAtCall |-> InitialUsers, stepsAtCall |-> <<>>]

\* no admin request has been served since the call in progress began
Undisturbed ==
  inflight.pc = "idle" \/ (users = inflight.usersAtCall /\ steps = inflight.stepsAtCall)

\* processApproval(expense, approverId, "APPROVED") up to the await of getWorkflow
EngineBegin(approverId) ==
  /\ inflight.pc = "idle"
  /\ expense.exists
  /\ inflight' =
       [NoEngineCall EXCEPT
          !.approverId = approverId,
          !.uninterrupted = processApproval(expense, approverId, "APPROVED"),
          !.usersAtCall = users, !.stepsAtCall = steps,
          !.pc = IF expense.workflowId = NULL \/ getWorkflow(expense.workflowId) = {}
                 THEN "returned" ELSE "workflow",
          !.workflow = IF expense.workflowId = NULL \/ getWorkflow(expense.workflowId) = {}
                       THEN NoWorkflow
                       ELSE CHOOSE wf \in getWorkflow(expense.workflowId) : TRUE,
          !.decision = IF expense.workflowId = NULL
                       THEN Decision(TRUE, 0, {}, TRUE,
                                     Reason("No workflow assigned - auto-approved", NULL))
                       ELSE IF getWorkflow(expense.workflowId) = {}
                       THEN Decision(TRUE, 0, {}, TRUE,
                                     Reason("Workflow not found - auto-approved", NULL))
                       ELSE NoDecision]
  /\ UNCHANGED <<users, workflow, steps, expense, history, last>>

\* const steps = await storage.getWorkflowSteps(expense.workflowId)
EngineSteps ==
  /\ inflight.pc = "workflow"
  /\ inflight' =
       IF getWorkflowSteps(expense.workflowId) = <<>>
       THEN [inflight EXCEPT !.pc = "returned",
                             !.decision = Decision(TRUE, 0, {}, TRUE,
                                            Reason("No workflow steps - auto-approved", NULL))]
       ELSE [inflight EXCEPT !.pc = "steps", !.steps = getWorkflowSteps(expense.workflowId)]
  /\ UNCHANGED <<users, workflow, steps, expense, history, last>>

\* const isAuthorized = await this.isApproverAuthorized(expense, approverId)
EngineAuthorize ==
  /\ inflight.pc = "steps"
  /\ inflight' =
       IF ~isApproverAuthorized(expense, inflight.approverId)
       THEN [inflight EXCEPT !.pc = "returned", !.decision = UnauthorizedDecision]
       ELSE [inflight EXCEPT !.pc = "authorized"]
  /\ UNCHANGED <<users, workflow, steps, expense, history, last>>

\* the switch on workflow.ruleType, on the workflow and the steps fetched before
EngineDispatch ==
  /\ inflight.pc = "authorized"
  /\ inflight' =
       [inflight EXCEPT !.pc = "returned",
                        !.decision = Dispatch(expense, inflight.workflow, inflight.steps,
                                              inflight.approverId)]
  /\ UNCHANGED <<users, workflow, steps, expense, history, last>>

\* the caller takes the Decision
EngineReturn ==
  /\ inflight.pc = "returned"
  /\ inflight' = NoEngineCall
  /\ UNCHANGED <<users, workflow, steps, expense, history, last>>

InitAwait ==
  \E designations \in [1..2 -> Designations] :
    /\ users = InitialUsers
    /\ workflow = [exists |-> TRUE, ruleType |-> "SEQUENTIAL", ruleConfig |-> NoConfig]
    /\ steps = ContiguousSteps(designations)
    /\ expense = NoExpense
    /\ history = <<>>
    /\ last = NoCall
    /\ inflight = NoEngineCall

\* the step and user routes, serving an admin while a call is in progress
ConcurrentCreateWorkflowStep(stepNumber, designation, p) ==
  Undisturbed /\ CreateWorkflowStep(stepNumber, designation, p)

ConcurrentDeleteWorkflowStep(i) == Undisturbed /\ DeleteWorkflowStep(i)

ConcurrentUpdateUser(managerId) == Undisturbed /\ UpdateUser(managerId)

NextAwait ==
  \/ CreateExpense
  \/ \E approverId \in ActorIds : EngineBegin(approverId)
  \/ EngineSteps
  \/ EngineAuthorize
  \/ EngineDispatch
  \/ EngineReturn
  \/ \E stepNumber \in 1..MaxStepNumber, designation \in Designations, p \in 1..(MaxSteps + 1) :
       ConcurrentCreateWorkflowStep(stepNumber, designation, p)
  \/ \E i \in 1..MaxSteps : ConcurrentDeleteWorkflowStep(i)
  \/ \E managerId \in ManagerIds : ConcurrentUpdateUser(managerId)

SpecAwait == InitAwait /\ [][NextAwait]_vars

----------------------------------------------------------------------------
(* Vocabulary of the properties *)

TerminalApprove(d) ==
  d.completed /\ d.approved /\ d.nextStepNumber = 0 /\ d.nextApprovers = {}

TerminalReject(d) ==
  d.completed /\ ~d.approved /\ d.nextStepNumber = 0 /\ d.nextApprovers = {}

\* the step the expense is at, an absent number counting as 1
StepK == IF expense.currentStepNumber = 0 THEN 1 ELSE expense.currentStepNumber

EngineCall(decision) == last.kind = "engine" /\ last.status = decision

\* an APPROVED call on an expense whose workflow row exists with that rule type
ApprovalUnder(ruleType) ==
  /\ EngineCall("APPROVED")
  /\ expense.workflowId # NULL
  /\ workflow.exists
  /\ workflow.ruleType = ruleType

ActorAuthorized == isApproverAuthorized(expense, last.approverId)

\* the rows of the step list whose stepNumber is the expense's current one
StepRecords == {i \in DOMAIN steps : steps[i].stepNumber = expense.currentStepNumber}

FirstStepRecord == CHOOSE i \in StepRecords : \A j \in StepRecords : i <= j

\* quantities of the percentage rule, from the tables
HistoryApproved == Cardinality({i \in DOMAIN history : history[i].status = "APPROVED"})

ResolvedSizes == [i \in DOMAIN steps |-> Cardinality(getApproversForStep(steps[i], expense.userId))]

RECURSIVE SumTo(_, _)
SumTo(f, n) == IF n = 0 THEN 0 ELSE f[n] + SumTo(f, n - 1)

TotalApprovers == SumTo(ResolvedSizes, Len(steps))

RequiredOrDefault ==
  IF workflow.ruleConfig.requiredPercentage = 0 THEN 50
  ELSE workflow.ruleConfig.requiredPercentage

QuorumMet == (HistoryApproved + 1) * 100 >= RequiredOrDefault * TotalApprovers

\* quantities of the hybrid rule, from the tables
SpecificApproverConfigured == workflow.ruleConfig.specificApproverId # NULL

SpecificApproverApproved ==
  \E i \in DOMAIN history :
    /\ history[i].approverId = workflow.ruleConfig.specificApproverId
    /\ history[i].status = "APPROVED"

\* the HYBRID evaluator ran: an APPROVED call by an authorized approver on a
\* workflow with steps
HybridEvaluation == ApprovalUnder("HYBRID") /\ Len(steps) >= 1 /\ ActorAuthorized

\* two decisions agree on approved, completed and nextStepNumber
SameOutcome(d1, d2) ==
  /\ d1.approved = d2.approved
  /\ d1.completed = d2.completed
  /\ d1.nextStepNumber = d2.nextStepNumber

\* the rule types the switch of processApproval names
KnownRuleTypes == {"SEQUENTIAL", "PERCENTAGE", "SPECIFIC_APPROVER", "HYBRID"}

\* the step records a resolver can be handed: each field unset, or set to a
\* value that names a user (a role) of the directory or none
StepShapes ==
  [stepNumber : {1},
   approverRole : {NULL} \cup Roles,
   approverUserId : {NULL, "u2", "u3", GhostId}]

\* the set the resolver is to return for a step of the owner's expense
ResolvedFor(step) ==
  IF step.approverUserId # NULL
  THEN {u \in DOMAIN users : u = step.approverUserId}
  ELSE IF step.approverRole = "MANAGER"
  THEN {u \in DOMAIN users : users[OwnerId].managerId # NULL /\ u = users[OwnerId].managerId}
  ELSE IF step.approverRole # NULL
  THEN {u \in DOMAIN users :
          users[u].companyId = users[OwnerId].companyId /\ users[u].role = step.approverRole}
  ELSE {}

\* the request wrote its history row and its update of the expense
Persisted(r) == inflight[r].pc = "answered" /\ inflight[r].code = 200

\* what the request's decision was computed from
SeenBy(r) ==
  [status |-> inflight[r].expense.status,
   currentStepNumber |-> inflight[r].expense.currentStepNumber,
   history |-> inflight[r].seenHistory]

\* the approve route called the engine
EngineConsulted == last.kind = "approve" /\ last.decision # NoDecision

\* the history row the approve route writes for its request
RecordedEntry == [approverId |-> last.approverId, status |-> last.status]

\* the reasons of the PERCENTAGE evaluator's decisions when somebody can approve
QuorumReasons ==
  { "${currentPercentage}% approval threshold met",
    "Final percentage: ${currentPercentage}%",
    "Current approval: ${currentPercentage}%, need ${requiredPercentage}%" }

\* the APPROVED rows recorded before the request of the approve route
ApprovedBefore ==
  Cardinality({i \in DOMAIN last.before.history : last.before.history[i].status = "APPROVED"})

\* the steps are numbered 1..n in the order of the list
StepsContiguous == \A i \in DOMAIN steps : steps[i].stepNumber = i

\* every recorded action is an approval
OnlyApprovals == \A i \in DOMAIN history : history[i].status = "APPROVED"

----------------------------------------------------------------------------
(* Properties *)

\* C1: a REJECTED action by an approver for whom isApproverAuthorized is true
\* returns completed = true, approved = false, no next step and no next
\* approvers, whatever the workflow, the rule type and the current step.
C1_RejectionIsTerminal ==
  (EngineCall("REJECTED") /\ ActorAuthorized) => TerminalReject(last.decision)

\* C1 witness: an authorized rejection at step 2 of a PERCENTAGE workflow
\* whose step 2 has a record.
C1_Witness ==
  /\ EngineCall("REJECTED") /\ ActorAuthorized
  /\ workflow.ruleType = "PERCENTAGE"
  /\ expense.currentStepNumber = 2 /\ StepRecords # {}
  /\ TerminalReject(last.decision)

\* C2: under SEQUENTIAL with n >= 1 steps, an APPROVED action by an
\* authorized approver at step k advances to k + 1 when k < n and approves
\* terminally when k = n.
C2_SequentialAdvance ==
  (ApprovalUnder("SEQUENTIAL") /\ Len(steps) >= 1 /\ ActorAuthorized) =>
     /\ (StepK < Len(steps) =>
           ~last.decision.completed /\ last.decision.nextStepNumber = StepK + 1)
     /\ (StepK = Len(steps) =>
           last.decision.completed /\ last.decision.approved)

\* C2 witness: the approval of step 2 of 2, after step 1 was approved.
C2_Witness ==
  /\ ApprovalUnder("SEQUENTIAL") /\ ActorAuthorized
  /\ Len(steps) = 2 /\ expense.currentStepNumber = 2 /\ Len(history) = 1
  /\ TerminalApprove(last.decision)

\* C3: a request to the approve route by a user who is not authorized for the
\* expense's current step leaves the expense row and the history as they
\* were, and a request that passes the route's validation of its body
\* (a status of APPROVED or REJECTED, a comment with a rejection) is
\* answered 403.
C3_UnauthorizedNeverMutates ==
  (last.kind = "approve" /\ ~isApproverAuthorized(last.before.expense, last.approverId)) =>
     /\ expense = last.before.expense
     /\ history = last.before.history
     /\ ((last.status \in {"APPROVED", "REJECTED"} /\ (last.status = "REJECTED" => last.comment))
           => last.code = 403)

\* C3 witness: an admin, who passes the route's own checks, approves at a
\* step whose approver is somebody else and is answered 403 by the engine's
\* decision.
C3_Witness ==
  /\ last.kind = "approve" /\ last.approverId = "u3" /\ last.status = "APPROVED"
  /\ ~isApproverAuthorized(last.before.expense, last.approverId)
  /\ last.decision = UnauthorizedDecision
  /\ last.code = 403

\* C4 as stated: isApproverAuthorized is true iff the expense has no
\* workflowId, or no currentStepNumber, or the approver is in the set resolved
\* for the step whose stepNumber is the current one; false when the workflow
\* has no such step.
C4_AuthorizedIffResolved_Original ==
  last.kind = "authorized" =>
    (last.authorized <=>
       \/ expense.workflowId = NULL
       \/ expense.currentStepNumber = 0
       \/ /\ StepRecords # {}
          /\ last.approverId \in getApproversForStep(steps[FirstStepRecord], expense.userId))

\* C4 amended: isApproverAuthorized is true iff the expense has no workflowId,
\* or no currentStepNumber, or the workflow has no step whose stepNumber is
\* the current one, or the approver is in the set resolved for that step.
C4_AuthorizedIffResolved ==
  last.kind = "authorized" =>
    (last.authorized <=>
       \/ expense.workflowId = NULL
       \/ expense.currentStepNumber = 0
       \/ StepRecords = {}
       \/ last.approverId \in getApproversForStep(steps[FirstStepRecord], expense.userId))

\* C4 witness: a user outside the resolved set of the current step's record
\* is refused.
C4_Witness ==
  /\ last.kind = "authorized" /\ ~last.authorized
  /\ expense.workflowId # NULL /\ StepRecords # {}

\* C5: with no workflowId an APPROVED action is approved terminally for any
\* approver id.
C5_NoWorkflowAutoApprove ==
  (EngineCall("APPROVED") /\ expense.workflowId = NULL) => TerminalApprove(last.decision)

\* C5 witness: the owner, who is no approver of anything, approves an expense
\* without workflow while a workflow with steps exists.
C5_Witness ==
  /\ EngineCall("APPROVED") /\ expense.workflowId = NULL
  /\ last.approverId = OwnerId /\ workflow.exists /\ Len(steps) >= 1
  /\ TerminalApprove(last.decision)

\* C6 as stated: under SPECIFIC_APPROVER an APPROVED action by the configured
\* specific approver is approved terminally at every current step and for
\* every approver designation of that step.
C6_SpecificApproverOverrides_Original ==
  (ApprovalUnder("SPECIFIC_APPROVER")
     /\ last.approverId = workflow.ruleConfig.specificApproverId)
    => TerminalApprove(last.decision)

\* C6 amended: under SPECIFIC_APPROVER an APPROVED action by the configured
\* specific approver, when isApproverAuthorized is true for that user, is
\* approved terminally at every current step.
C6_SpecificApproverOverrides ==
  (ApprovalUnder("SPECIFIC_APPROVER")
     /\ last.approverId = workflow.ruleConfig.specificApproverId
     /\ ActorAuthorized)
    => TerminalApprove(last.decision)

\* C6 witness: the specific approver approves at step 1 of 2, where a
\* sequential evaluation would only advance.
C6_Witness ==
  /\ ApprovalUnder("SPECIFIC_APPROVER") /\ ActorAuthorized
  /\ last.approverId = workflow.ruleConfig.specificApproverId
  /\ Len(steps) = 2 /\ expense.currentStepNumber = 1 /\ StepRecords # {}
  /\ TerminalApprove(last.decision)

C8_QuorumExact ==
  (ApprovalUnder("PERCENTAGE") /\ Len(steps) >= 1 /\ ActorAuthorized
     /\ TotalApprovers > 0) =>
    (TerminalApprove(last.decision) <=> QuorumMet)

ExhaustedBranch ==
  /\ ApprovalUnder("PERCENTAGE") /\ Len(steps) >= 1 /\ ActorAuthorized
  /\ TotalApprovers > 0
  /\ ~PercentageAtLeast(HistoryApproved + 1, TotalApprovers, RequiredOrDefault)
  /\ StepK + 1 > Len(steps)

\* some current step and some requiredPercentage make the evaluator, on the
\* present tables, end in its exhausted-steps branch with that approved flag
ExhaustedBranchCanReturn(flag) ==
  \E k \in 0..Len(steps), r \in 0..100 :
    LET d == processPercentage([expense EXCEPT !.currentStepNumber = k],
                               [workflow EXCEPT !.ruleConfig.requiredPercentage = r],
                               steps, last.approverId)
    IN d.reason.text = "Final percentage: ${currentPercentage}%" /\ d.approved = flag

\* C10 as stated: the exhausted-steps branch of the PERCENTAGE evaluator
\* returns a terminal decision whose approved flag is the re-tested
\* percentage >= requiredPercentage, and both approved = true and
\* approved = false can come out of that branch.
C10_ExhaustedEitherWay_Original ==
  ExhaustedBranch =>
     /\ last.decision.completed
     /\ last.decision.approved =
          PercentageAtLeast(HistoryApproved + 1, TotalApprovers, RequiredOrDefault)
     /\ ExhaustedBranchCanReturn(TRUE)
     /\ ExhaustedBranchCanReturn(FALSE)

\* C10 amended: the exhausted-steps branch of the PERCENTAGE evaluator returns
\* a terminal decision whose approved flag is the re-tested
\* percentage >= requiredPercentage, and that flag is always false: the
\* branch is only reached when the same test has just failed, so it always
\* rejects.
C10_ExhaustedAlwaysRejects ==
  ExhaustedBranch =>
     /\ TerminalReject(last.decision)
     /\ last.decision.approved =
          PercentageAtLeast(HistoryApproved + 1, TotalApprovers, RequiredOrDefault)
     /\ ExhaustedBranchCanReturn(FALSE)
     /\ ~ExhaustedBranchCanReturn(TRUE)

\* C10 witness: the last step is approved below the quorum.
C10_Witness ==
  /\ ExhaustedBranch
  /\ last.decision.reason.text = "Final percentage: ${currentPercentage}%"
  /\ TerminalReject(last.decision)

C13_HybridFallsThrough ==
  (HybridEvaluation /\ (~SpecificApproverConfigured \/ SpecificApproverApproved)
     /\ last.approverId # workflow.ruleConfig.specificApproverId) =>
     last.decision =
       IF workflow.ruleConfig.usePercentage
       THEN processPercentage(expense, workflow, steps, last.approverId)
       ELSE processSequential(expense, workflow, steps)

\* C13 witness: past a satisfied gate the percentage evaluator approves at
\* step 1 of 2, where the sequential evaluator would advance.
C13_Witness ==
  /\ HybridEvaluation /\ SpecificApproverConfigured /\ SpecificApproverApproved
  /\ last.approverId # workflow.ruleConfig.specificApproverId
  /\ workflow.ruleConfig.usePercentage
  /\ Len(steps) = 2 /\ expense.currentStepNumber = 1
  /\ TerminalApprove(last.decision)
  /\ ~processSequential(expense, workflow, steps).completed

\* C14: an APPROVED action on an expense whose workflowId names a workflow
\* row that cannot be found, or a workflow without steps, is approved
\* terminally for any approver id, whether or not a later authorization
\* check would pass.
C14_MisconfigurationFailsOpen ==
  (EngineCall("APPROVED") /\ expense.workflowId # NULL) =>
     /\ ((~workflow.exists \/ Len(steps) = 0) => TerminalApprove(last.decision))
     /\ LET d == processApproval([expense EXCEPT !.workflowId = UnknownWorkflowId],
                                 last.approverId, "APPROVED")
        IN TerminalApprove(d) /\ d.reason.text = "Workflow not found - auto-approved"

\* C14 witness: the owner of the expense, no approver of anything, approves
\* under a PERCENTAGE workflow that has no steps.
C14_Witness ==
  /\ EngineCall("APPROVED") /\ expense.workflowId # NULL
  /\ workflow.exists /\ workflow.ruleType = "PERCENTAGE" /\ Len(steps) = 0
  /\ last.approverId = OwnerId
  /\ last.decision.reason.text = "No workflow steps - auto-approved"
  /\ TerminalApprove(last.decision)

\* C15: on a workflow with at least one step and a ruleType outside
\* SEQUENTIAL, PERCENTAGE, SPECIFIC_APPROVER and HYBRID, an APPROVED action
\* is approved terminally for an authorized approver and gets the
\* unauthorized result for an unauthorized one.
C15_UnknownRuleTypeFailsOpen ==
  (EngineCall("APPROVED") /\ expense.workflowId # NULL /\ workflow.exists
     /\ Len(steps) >= 1 /\ workflow.ruleType \notin KnownRuleTypes) =>
     IF ActorAuthorized
     THEN TerminalApprove(last.decision)
     ELSE last.decision = UnauthorizedDecision

\* C15 witness: under an unknown rule type the approver of step 1 of 2
\* approves the expense, where a sequential evaluation would advance.
C15_Witness ==
  /\ EngineCall("APPROVED") /\ expense.workflowId # NULL /\ workflow.exists
  /\ workflow.ruleType \notin KnownRuleTypes
  /\ Len(steps) = 2 /\ expense.currentStepNumber = 1 /\ StepRecords # {}
  /\ ActorAuthorized
  /\ ~isApproverAuthorized(expense, "u3")
  /\ TerminalApprove(last.decision)

C17_NextStepIffOpen_Original ==
  last.kind = "engine" =>
    (last.decision.nextStepNumber # 0 <=> ~last.decision.completed)

\* C17 amended: every Decision processApproval returns other than the
\* unauthorized result has a nextStepNumber if and only if completed = false;
\* the unauthorized result has completed = false and no nextStepNumber.
C17_NextStepIffOpen ==
  last.kind = "engine" =>
    IF last.decision.reason.text = UnauthorizedText
    THEN ~last.decision.completed /\ last.decision.nextStepNumber = 0
    ELSE (last.decision.nextStepNumber # 0 <=> ~last.decision.completed)

\* C17 witness: a rejection by somebody who is not the approver of the
\* current step returns the unauthorized result.
C17_Witness ==
  /\ EngineCall("REJECTED") /\ ~ActorAuthorized
  /\ last.decision = UnauthorizedDecision
  /\ ~last.decision.completed /\ last.decision.nextStepNumber = 0

\* C18: every Decision processApproval returns has completed = true if it
\* has approved = true, and no nextApprovers if it has completed = true.
C18_ApprovedIsCompleted ==
  last.kind = "engine" =>
    /\ (last.decision.approved => last.decision.completed)
    /\ (last.decision.completed => last.decision.nextApprovers = {})

\* C18 witness: the quorum is met at step 1 of 2 and the decision names
\* nobody, although the following step resolves to somebody.
C18_Witness ==
  /\ ApprovalUnder("PERCENTAGE") /\ ActorAuthorized
  /\ Len(steps) = 2 /\ expense.currentStepNumber = 1
  /\ getApproversForStep(steps[2], expense.userId) # {}
  /\ last.decision.approved /\ last.decision.completed
  /\ last.decision.nextApprovers = {}

C20_RequestsSerialized ==
  \A r1, r2 \in RequestIds :
    (r1 # r2 /\ Persisted(r1) /\ Persisted(r2)) => SeenBy(r1) # SeenBy(r2)

\* C21: for every PENDING expense with a workflow there are a user and an
\* action for which processApproval returns something other than the
\* unauthorized result.
C21_NeverStuck ==
  (expense.exists /\ expense.status = "PENDING" /\ expense.workflowId # NULL) =>
     \E u \in DOMAIN users, action \in {"APPROVED", "REJECTED"} :
       processApproval(expense, u, action).reason.text # UnauthorizedText

\* C22: once the expense's status is APPROVED or REJECTED, a request to the
\* approve route changes neither the expense row nor the history.
C22_TerminalIsFinal ==
  (last.kind = "approve" /\ last.before.expense.status # "PENDING") =>
     /\ expense = last.before.expense
     /\ history = last.before.history

C24_CurrentActionCountedOnce ==
  (EngineConsulted /\ last.status = "APPROVED"
     /\ last.decision.reason.text \in QuorumReasons) =>
     /\ last.decision.approved =
          PercentageAtLeast(ApprovedBefore + 1, TotalApprovers, RequiredOrDefault)
     /\ history = Append(last.before.history, RecordedEntry)
     /\ HistoryApproved = ApprovedBefore + 1

\* C24 witness: the second approval under a PERCENTAGE workflow meets a
\* quorum that the first one alone, or counted without the current action,
\* does not meet.
C24_Witness ==
  /\ EngineConsulted /\ last.status = "APPROVED" /\ last.code = 200
  /\ workflow.ruleType = "PERCENTAGE"
  /\ last.decision.reason.text \in QuorumReasons
  /\ ApprovedBefore = 1 /\ last.decision.approved
  /\ ~PercentageAtLeast(ApprovedBefore, TotalApprovers, RequiredOrDefault)

\* C25: an expense created under a SEQUENTIAL workflow of n >= 1 steps
\* numbered 1..n, with workflow and directory fixed, on which only
\* approvals have been recorded, is PENDING at step h + 1 after h < n
\* approvals and APPROVED from the n-th approval on: it visits the steps
\* 1, 2, ..., n in order, one per approval.
C25_SequentialWalk ==
  (expense.exists /\ expense.workflowId # NULL /\ workflow.ruleType = "SEQUENTIAL"
     /\ StepsContiguous /\ Len(steps) >= 1 /\ OnlyApprovals) =>
     IF Len(history) < Len(steps)
     THEN expense.status = "PENDING" /\ expense.currentStepNumber = Len(history) + 1
     ELSE expense.status = "APPROVED" /\ expense.currentStepNumber = Len(steps)

\* C25 witness: the second approval of a two-step workflow has just turned
\* the expense, PENDING at step 2 until then, to APPROVED.
C25_Witness ==
  /\ last.kind = "approve" /\ last.code = 200 /\ OnlyApprovals
  /\ Len(steps) = 2 /\ Len(history) = 2
  /\ last.before.expense.status = "PENDING"
  /\ last.before.expense.currentStepNumber = 2
  /\ expense.status = "APPROVED"

\* C26: every Decision of the engine that is neither terminal nor the
\* unauthorized result names the step after the expense's current one (an
\* absent current step counting as 1), and that step is within the step list;
\* a request to the approve route therefore leaves currentStepNumber as it was
\* or raises it by exactly one, to a number not above the number of steps.
C26_AdvanceByOne ==
  /\ (last.kind = "engine" /\ ~last.decision.completed
        /\ last.decision # UnauthorizedDecision) =>
       /\ last.decision.nextStepNumber = StepK + 1
       /\ last.decision.nextStepNumber <= Len(steps)
  /\ (last.kind = "approve" /\ expense.currentStepNumber # last.before.expense.currentStepNumber) =>
       /\ expense.currentStepNumber =
            (IF last.before.expense.currentStepNumber = 0 THEN 1
             ELSE last.before.expense.currentStepNumber) + 1
       /\ expense.currentStepNumber <= Len(steps)
       /\ Len(history) = Len(last.before.history) + 1

\* an APPROVED request by an actor other than the specific approver moves a
\* SPECIFIC_APPROVER expense from step 1 to step 2 of two
C26_Witness ==
  /\ last.kind = "approve" /\ last.code = 200
  /\ workflow.ruleType = "SPECIFIC_APPROVER"
  /\ ~last.decision.completed
  /\ last.before.expense.currentStepNumber = 1
  /\ expense.currentStepNumber = 2 /\ Len(steps) = 2

\* C27: when the steps are numbered 1..n in list order and the engine returns
\* a non-terminal Decision advancing to step m, the users named in
\* nextApprovers are exactly the users isApproverAuthorized accepts for the
\* expense once its currentStepNumber is m, the directory being the same.
C27_NextApproversAreAuthorized ==
  (last.kind = "engine" /\ StepsContiguous /\ ~last.decision.completed
     /\ last.decision.nextStepNumber # 0) =>
    \A u \in UserIds \cup {GhostId} :
      (u \in last.decision.nextApprovers) <=>
        isApproverAuthorized([expense EXCEPT !.currentStepNumber = last.decision.nextStepNumber], u)

\* an advance from step 1 to step 2 whose two steps resolve to different,
\* non-empty sets of users
C27_Witness ==
  /\ last.kind = "engine" /\ StepsContiguous /\ ~last.decision.completed
  /\ last.decision.nextStepNumber = 2
  /\ last.decision.nextApprovers # {}
  /\ last.decision.nextApprovers # getApproversForStep(steps[1], expense.userId)
  /\ getApproversForStep(steps[1], expense.userId) # {}

\* C28: a well-formed request to the approve route by a user whom the
\* engine resolves as an approver of the expense's current step is not
\* refused by the route: neither its role check, nor its team check, nor
\* the engine answers 403.
C28_ResolvedApproverCanAct ==
  (/\ last.kind = "approve"
   /\ last.status \in {"APPROVED", "REJECTED"}
   /\ (last.status = "REJECTED" => last.comment)
   /\ last.before.expense.exists
   /\ last.before.expense.workflowId # NULL
   /\ \E s \in FindStep(steps, last.before.expense.currentStepNumber) :
         last.approverId \in getApproversForStep(s, last.before.expense.userId)) =>
    last.code # 403

\* C29: the reason of a Decision contains "Unauthorized" exactly when the
\* Decision is the unauthorized result, whatever the workflow's
\* specificApproverId is; so a request that reaches the engine is answered
\* 403 with nothing persisted exactly when the engine found the actor not
\* authorized.
C29_UnauthorizedExactly ==
  /\ (last.kind = "engine") =>
       (IncludesUnauthorized(last.decision.reason) <=> last.decision = UnauthorizedDecision)
  /\ EngineConsulted =>
       ((last.code = 403 /\ expense = last.before.expense /\ history = last.before.history)
          <=> ~isApproverAuthorized(last.before.expense, last.approverId))

\* C30: when at most one admin request (a step added or deleted, the owner's
\* manager changed) is served while processApproval awaits its lookups, the
\* Decision it returns is the Decision of an uninterrupted call on the
\* tables as they were before that request or as they are after it.
C30_ConsistentView ==
  (inflight.pc = "returned") =>
    inflight.decision \in
      {inflight.uninterrupted, processApproval(expense, inflight.approverId, "APPROVED")}

====
